---- MODULE Spec2Model ----
(***************************************************************************)
(* Model of server.js: the create-order and capture-order handlers of the  *)
(* checkout backend, the order payload built by createOrder, and the       *)
(* payment processor as seen through ordersController.                     *)
(***************************************************************************)
EXTENDS Integers, Sequences, FiniteSets, TLC

\* Number of HTTP requests the server receives in one run.
MaxReq == 2

Req == 1..MaxReq

\* A field that is not there (the JavaScript value undefined).
Undefined == "undefined"

----------------------------------------------------------------------------
\* Inputs of the two routes.

ContactPreferenceEnum ==
    {"NO_CONTACT_INFO", "RETAIN_CONTACT_INFO", "UPDATE_CONTACT_INFO"}

\* req.params.orderID
OrderIDs == {"O-1", "O-2"}

CreateRequest(cart, pref) ==
    [kind |-> "create", cart |-> cart, pref |-> pref, orderID |-> Undefined]

\* Bodies of POST /api/orders: each enum value of pref, a string that is
\* not one, and a body without pref, with one cart or the other.
CreateRequests ==
    { CreateRequest("[]", "NO_CONTACT_INFO"),
      CreateRequest("[]", "RETAIN_CONTACT_INFO"),
      CreateRequest("[sku01]", "UPDATE_CONTACT_INFO"),
      CreateRequest("[]", "BOGUS"),
      CreateRequest("[sku01]", Undefined) }

CaptureRequests ==
    [kind : {"capture"}, cart : {Undefined}, pref : {Undefined},
     orderID : OrderIDs]

NoRequest ==
    [kind |-> "none", cart |-> Undefined, pref |-> Undefined,
     orderID |-> Undefined]

\* The request line of q, method and path, without the body.
RequestLine(q) == [q EXCEPT !.cart = Undefined, !.pref = Undefined]

----------------------------------------------------------------------------
\* JSON text and JSON values.  A text is a sequence of tokens: string
\* literals, punctuation and white space.  A value is an object, kept as
\* the sequence of its <<key, value>> members in insertion order.

GenericCreateError == "Failed to create order."
GenericCaptureError == "Failed to capture order."

\* Messages carried by the errors the processor client raises.
ApiErrorMessages == {"Order already captured", "UNPROCESSABLE_ENTITY"}
OtherErrorMessages == {"socket hang up"}
SyntaxErrorMessage == "Unexpected end of JSON input"

\* The string literal "s".
Quote(s) == <<"string", s>>

IsStrLit(t) == t[1] = "string"

Unquote(t) == t[2]

Punct(c) == <<"punct", c>>

LBrace == Punct("{")
RBrace == Punct("}")
Colon  == Punct(":")
Comma  == Punct(",")

WS == <<"space", " ">>

StripWS(text) == SelectSeq(text, LAMBDA t : t # WS)

HasKey(obj, k) == \E i \in 1..Len(obj) : obj[i][1] = k

\* obj[k] = v of JavaScript: a new key is appended, an existing key keeps
\* its place and takes the new value.
Put(obj, k, v) ==
    IF HasKey(obj, k)
    THEN [i \in 1..Len(obj) |-> IF obj[i][1] = k THEN <<k, v>> ELSE obj[i]]
    ELSE Append(obj, <<k, v>>)

SyntaxError == [ok |-> FALSE, value |-> <<>>]

RECURSIVE ParseMembers(_, _)
\* The members between the braces, toks = key : value [, key : value]*
ParseMembers(toks, obj) ==
    IF Len(toks) < 3 \/ ~IsStrLit(toks[1]) \/ toks[2] # Colon
       \/ ~IsStrLit(toks[3])
    THEN SyntaxError
    ELSE LET o == Put(obj, Unquote(toks[1]), Unquote(toks[3]))
         IN  IF Len(toks) = 3
             THEN [ok |-> TRUE, value |-> o]
             ELSE IF toks[4] # Comma
                  THEN SyntaxError
                  ELSE ParseMembers(SubSeq(toks, 5, Len(toks)), o)

\* JSON.parse(text): the value, or a SyntaxError.
JSONParse(text) ==
    LET t == StripWS(text)
    IN  IF Len(t) < 2 \/ t[1] # LBrace \/ t[Len(t)] # RBrace
        THEN SyntaxError
        ELSE IF Len(t) = 2
             THEN [ok |-> TRUE, value |-> <<>>]
             ELSE ParseMembers(SubSeq(t, 2, Len(t) - 1), <<>>)

RECURSIVE StringifyMembers(_)
StringifyMembers(obj) ==
    IF obj = <<>>
    THEN <<>>
    ELSE <<Quote(obj[1][1]), Colon, Quote(obj[1][2])>>
         \o (IF Len(obj) = 1 THEN <<>> ELSE <<Comma>>)
         \o StringifyMembers(Tail(obj))

\* JSON.stringify(value), as res.json writes it.
JSONStringify(obj) == <<LBrace>> \o StringifyMembers(obj) \o <<RBrace>>

----------------------------------------------------------------------------
\* The payment processor client.

\* Bodies the processor can send with a 2xx status: compact, spaced out
\* with a second member, and cut short.
BodyMinimal == <<LBrace, Quote("id"), Colon, Quote("O-1"), RBrace>>

BodySpaced ==
    <<LBrace, WS, Quote("id"), Colon, WS, Quote("O-1"), Comma, WS,
      Quote("status"), Colon, WS, Quote("COMPLETED"), WS, RBrace>>

BodyCut == <<LBrace, Quote("id"), Colon>>

Ok(statusCode, body) ==
    [type |-> "ok", statusCode |-> statusCode, body |-> body,
     message |-> Undefined]

OkResults ==
    { Ok(201, BodyMinimal), Ok(200, BodySpaced), Ok(201, BodyCut) }

ApiErrors ==
    [type : {"ApiError"}, statusCode : {0}, body : {<<>>},
     message : ApiErrorMessages]

OtherErrors ==
    [type : {"Error"}, statusCode : {0}, body : {<<>>},
     message : OtherErrorMessages]

\* Every way a call can settle.
Results == OkResults \cup ApiErrors \cup OtherErrors

Pending == [type |-> "pending", statusCode |-> 0, body |-> <<>>,
            message |-> Undefined]

----------------------------------------------------------------------------
\* The order payload of createOrder.

\* A decimal string such as "100.00", kept as its characters.
Hundred == <<"1", "0", "0", ".", "0", "0">>
Four    == <<"4", ".", "0", "0">>
Zero    == <<"0", ".", "0", "0">>
Ten     == <<"1", "0", ".", "0", "0">>

Digits == <<"0", "1", "2", "3", "4", "5", "6", "7", "8", "9">>

DigitVal(c) == (CHOOSE i \in 1..10 : Digits[i] = c) - 1

RECURSIVE NatVal(_)
\* The number a string of digits denotes.
NatVal(ds) ==
    IF ds = <<>> THEN 0
    ELSE NatVal(SubSeq(ds, 1, Len(ds) - 1)) * 10 + DigitVal(ds[Len(ds)])

\* The amount a decimal string with two decimals denotes, in pence.
Pence(v) ==
    LET dot == CHOOSE i \in 1..Len(v) : v[i] = "."
    IN  NatVal(SubSeq(v, 1, dot - 1)) * 100
          + NatVal(SubSeq(v, dot + 1, Len(v)))

Money(value) == [currencyCode |-> "GBP", value |-> value]

AmountOff ==
    [currencyCode |-> "GBP", value |-> Hundred,
     breakdown |-> [itemTotal |-> Money(Ten)]]

Amount ==
    [currencyCode |-> "GBP", value |-> Hundred,
     breakdown |-> [itemTotal |-> Money(Hundred)]]

Items ==
    << [name |-> "T-Shirt", unitAmount |-> Money(Hundred),
        quantity |-> <<"1">>, description |-> "Super Fresh Shirt",
        sku |-> "sku01"] >>

Option(id, type, label, selected, value) ==
    [id |-> id, type |-> type, label |-> label, selected |-> selected,
     amount |-> Money(value)]

OptionsTwoSelected ==
    << Option("SHIP1", "SHIPPING", "Free Shipping", TRUE, Zero),
       Option("SHIP2", "SHIPPING", "2-Day Shipping", FALSE, Four),
       Option("PICKUP0", "PICKUP", "Collect from Glasgow Store", TRUE, Zero),
       Option("PICKUP1", "PICKUP", "Collect from London Store", FALSE, Zero) >>

Options ==
    << Option("SHIP1", "SHIPPING", "Free Shipping", FALSE, Zero),
       Option("SHIP2", "SHIPPING", "2-Day Shipping", FALSE, Four),
       Option("PICKUP0", "PICKUP", "Collect from Glasgow Store", TRUE, Zero),
       Option("PICKUP1", "PICKUP", "Collect from London Store", FALSE, Zero) >>

Shipping ==
    [phoneNumber |-> [countryCode |-> "44", nationalNumber |-> "4081111111"],
     name |-> [full_name |-> "Hans Muller"],
     options |-> Options]

IncludeShippingAllowList(contactPreference) ==
    contactPreference \in {"RETAIN_CONTACT_INFO", "UPDATE_CONTACT_INFO"}

\* const includeShipping = contactPreference !== "NO_CONTACT_INFO"
IncludeShipping(contactPreference) == contactPreference # "NO_CONTACT_INFO"

\* The one purchase unit; ...(includeShipping && { shipping }) adds the
\* shipping key or nothing.
PurchaseUnit(contactPreference) ==
    LET unit == [amount |-> Amount, items |-> Items]
    IN  IF IncludeShipping(contactPreference)
        THEN unit @@ [shipping |-> Shipping]
        ELSE unit

PayNow == "PAY_NOW"

ExperienceContextDefaulted(contactPreference) ==
    [userAction |-> PayNow,
     contactPreference |->
        IF contactPreference \in ContactPreferenceEnum
        THEN contactPreference ELSE "NO_CONTACT_INFO"]

ExperienceContext(contactPreference) ==
    [userAction |-> PayNow, contactPreference |-> contactPreference]

\* The request createOrder hands to ordersController.createOrder.
Collect(cart, contactPreference) ==
    [body |->
        [intent |-> "CAPTURE",
         purchaseUnits |-> << PurchaseUnit(contactPreference) >>,
         paymentSource |->
            [paypal |->
                [experienceContext |-> ExperienceContext(contactPreference)]]],
     prefer |-> "return=minimal"]

\* The request the capture route hands to ordersController.captureOrder.
CaptureCall(orderID) == [id |-> orderID, prefer |-> "return=minimal"]

NoCall == [prefer |-> Undefined]

----------------------------------------------------------------------------
\* The two routes, after the processor call has settled.

NoError == [type |-> "none", message |-> Undefined]

\* const { body, ...httpResponse } = await <call>; JSON.parse(body):
\* a rejected call throws its error, a body that is not JSON throws a
\* SyntaxError, otherwise the status code and the parsed body are kept.
AwaitAndParse(result) ==
    IF result.type # "ok"
    THEN [threw |-> TRUE,
          err |-> [type |-> result.type, message |-> result.message],
          httpStatusCode |-> 0, jsonResponse |-> <<>>]
    ELSE LET parsed == JSONParse(result.body)
         IN  IF parsed.ok
             THEN [threw |-> FALSE, err |-> NoError,
                   httpStatusCode |-> result.statusCode,
                   jsonResponse |-> parsed.value]
             ELSE [threw |-> TRUE,
                   err |-> [type |-> "SyntaxError",
                            message |-> SyntaxErrorMessage],
                   httpStatusCode |-> 0, jsonResponse |-> <<>>]

\* res.status(status).json(value)
Send(status, value) == [status |-> status, body |-> JSONStringify(value)]

RelayAlwaysOk(httpStatusCode, jsonResponse) == Send(200, jsonResponse)

\* res.status(httpStatusCode).json(jsonResponse)
Relay(httpStatusCode, jsonResponse) == Send(httpStatusCode, jsonResponse)

CreateCatchLeaky(err) ==
    Send(500, << <<"error",
                   IF err.type = "ApiError" THEN err.message
                   ELSE GenericCreateError>> >>)

\* catch (err) { res.status(500).json({ error: "Failed to create order." }) }
CreateCatch(err) == Send(500, << <<"error", GenericCreateError>> >>)

CaptureMessageGeneric(err) == GenericCaptureError

\* err instanceof ApiError ? err.message : "Failed to capture order."
CaptureMessage(err) ==
    IF err.type = "ApiError" THEN err.message ELSE GenericCaptureError

CaptureCatchRelay(err) == Send(200, << <<"error", CaptureMessage(err)>> >>)

\* catch (err) { return res.status(500).json({ error: message }) }
CaptureCatch(err) == Send(500, << <<"error", CaptureMessage(err)>> >>)

\* The response of POST /api/orders to a settled createOrder call.
CreateRoute(result) ==
    LET got == AwaitAndParse(result)
    IN  IF got.threw
        THEN CreateCatch(got.err)
        ELSE Relay(got.httpStatusCode, got.jsonResponse)

\* The response of POST /api/orders/:orderID/capture to a settled
\* captureOrder call.
CaptureRoute(result) ==
    LET got == AwaitAndParse(result)
    IN  IF got.threw
        THEN CaptureCatch(got.err)
        ELSE Relay(got.httpStatusCode, got.jsonResponse)

----------------------------------------------------------------------------
\* The server: requests in flight, each in its own handler invocation.

VARIABLES
    pc,         \* where each request's handler is
    req,        \* the request as received
    sent,       \* the request handed to the processor client
    calls,      \* processor calls issued for the request
    result,     \* how the request's processor call settled
    responses,  \* the HTTP responses written for the request
    captured    \* orders the processor has captured

vars == <<pc, req, sent, calls, result, responses, captured>>

BindShared(frames, r, v) == [x \in DOMAIN frames |-> v]

\* A const binding of one handler invocation: each request has its own.
Bind(frames, r, v) == [frames EXCEPT ![r] = v]

Init ==
    /\ pc = [r \in Req |-> "idle"]
    /\ req = [r \in Req |-> NoRequest]
    /\ sent = [r \in Req |-> NoCall]
    /\ calls = [r \in Req |-> 0]
    /\ result = [r \in Req |-> Pending]
    /\ responses = [r \in Req |-> <<>>]
    /\ captured = {}

\* Requests are numbered in the order they arrive.
NextArrival(r) == pc[r] = "idle" /\ \A q \in Req : q < r => pc[q] # "idle"

\* POST /api/orders up to the await: read cart and pref, build the
\* payload, call ordersController.createOrder.
ReceiveCreate(r) ==
    /\ NextArrival(r)
    /\ \E q \in CreateRequests :
          /\ req' = Bind(req, r, q)
          /\ sent' = Bind(sent, r, Collect(q.cart, q.pref))
    /\ calls' = [calls EXCEPT ![r] = @ + 1]
    /\ pc' = [pc EXCEPT ![r] = "awaiting"]
    /\ UNCHANGED <<result, responses, captured>>

\* POST /api/orders/:orderID/capture up to the await.
ReceiveCapture(r) ==
    /\ NextArrival(r)
    /\ \E q \in CaptureRequests :
          /\ req' = Bind(req, r, q)
          /\ sent' = Bind(sent, r, CaptureCall(q.orderID))
    /\ calls' = [calls EXCEPT ![r] = @ + 1]
    /\ pc' = [pc EXCEPT ![r] = "awaiting"]
    /\ UNCHANGED <<result, responses, captured>>

\* The processor answers a createOrder call, or the call fails.
ProcessorCreate(r) ==
    /\ pc[r] = "awaiting"
    /\ req[r].kind = "create"
    /\ \E o \in Results :
          result' = Bind(result, r, o)
    /\ pc' = [pc EXCEPT ![r] = "settled"]
    /\ UNCHANGED <<req, sent, calls, responses, captured>>

\* The processor answers a captureOrder call, or the call fails.  An
\* order is captured once: a capture of a captured order is rejected.
ProcessorCapture(r) ==
    /\ pc[r] = "awaiting"
    /\ req[r].kind = "capture"
    /\ \E o \in Results :
          /\ sent[r].id \in captured => o.type # "ok"
          /\ result' = Bind(result, r, o)
          /\ captured' = IF o.type = "ok"
                         THEN captured \cup {sent[r].id}
                         ELSE captured
    /\ pc' = [pc EXCEPT ![r] = "settled"]
    /\ UNCHANGED <<req, sent, calls, responses>>

\* POST /api/orders after the await.  The handler returns and its
\* bindings (cart, contactPreference, collect, the result of the call) are
\* released; the request line and the response written remain.
CreateContinue(r) ==
    /\ pc[r] = "settled"
    /\ req[r].kind = "create"
    /\ responses' = [responses EXCEPT ![r] = Append(@, CreateRoute(result[r]))]
    /\ req' = Bind(req, r, RequestLine(req[r]))
    /\ sent' = Bind(sent, r, NoCall)
    /\ result' = Bind(result, r, Pending)
    /\ pc' = [pc EXCEPT ![r] = "done"]
    /\ UNCHANGED <<calls, captured>>

\* POST /api/orders/:orderID/capture after the await.
CaptureContinue(r) ==
    /\ pc[r] = "settled"
    /\ req[r].kind = "capture"
    /\ responses' = [responses EXCEPT ![r] = Append(@, CaptureRoute(result[r]))]
    /\ req' = Bind(req, r, RequestLine(req[r]))
    /\ sent' = Bind(sent, r, NoCall)
    /\ result' = Bind(result, r, Pending)
    /\ pc' = [pc EXCEPT ![r] = "done"]
    /\ UNCHANGED <<calls, captured>>

Next ==
    \E r \in Req :
        \/ ReceiveCreate(r)
        \/ ReceiveCapture(r)
        \/ ProcessorCreate(r)
        \/ ProcessorCapture(r)
        \/ CreateContinue(r)
        \/ CaptureContinue(r)

Spec == Init /\ [][Next]_vars

\* The handler of r moves on: its call settles, or its continuation runs.
\* The steps of Next that do this are those of ProcessorCreate,
\* ProcessorCapture, CreateContinue and CaptureContinue, and one of them
\* is enabled whenever r is awaiting or settled.
Advance(r) ==
    \/ pc[r] = "awaiting" /\ pc' = [pc EXCEPT ![r] = "settled"]
    \/ pc[r] = "settled" /\ pc' = [pc EXCEPT ![r] = "done"]

\* The processor client settles every call (with a result or an error) and
\* the event loop runs the continuation of every settled call: the server
\* does not stop while a handler can move on.
FairSpec == Spec /\ WF_pc(\E r \in Req : Advance(r))

----------------------------------------------------------------------------
\* What the properties below talk about.

Creates == {r \in Req : req[r].kind = "create"}

\* The create-order requests whose payload is with the processor client.
Submitted == {r \in Creates : pc[r] \in {"awaiting", "settled"}}

Captures == {r \in Req : req[r].kind = "capture"}

\* The purchase unit and the experience block of the payload sent for r.
UnitOf(r) == sent[r].body.purchaseUnits[1]

ExperienceOf(r) == sent[r].body.paymentSource.paypal.experienceContext

HasShipping(r) == "shipping" \in DOMAIN UnitOf(r)

RECURSIVE ItemsTotal(_)
\* Sum over the line items of unit amount times quantity, in pence.
ItemsTotal(items) ==
    IF items = <<>> THEN 0
    ELSE Pence(items[1].unitAmount.value) * NatVal(items[1].quantity)
           + ItemsTotal(Tail(items))

\* The handler of r writes its response in this step.
Responds(r) == pc[r] = "settled" /\ pc'[r] = "done"

\* The call of r returned a status code and a body that parses.
Succeeded(r) == result[r].type = "ok" /\ JSONParse(result[r].body).ok

\* The single response r has received.
ResponseOf(r) == responses[r][1]

ErrorBody(message) == [ok |-> TRUE, value |-> << <<"error", message>> >>]

----------------------------------------------------------------------------
C3_BreakdownIsTotal ==
    \A r \in Submitted :
        LET amount == UnitOf(r).amount
            items  == UnitOf(r).items
        IN  /\ amount.breakdown.itemTotal.value = amount.value
            /\ amount.breakdown.itemTotal.currencyCode = amount.currencyCode
            /\ \A i \in 1..Len(items) :
                  items[i].unitAmount.currencyCode = amount.currencyCode
            /\ Pence(amount.value) = ItemsTotal(items)

C3_Witness ==
    \E r1, r2 \in Submitted :
        /\ req[r1].cart = "[]" /\ req[r2].cart = "[sku01]"
        /\ Pence(UnitOf(r1).amount.value) = 10000
        /\ ItemsTotal(UnitOf(r2).items) = 10000

\* C4: the experience block of the payload carries the pref of the request
\* body as received and the pay-now user action, with or without shipping.
C4_PreferencePassedOn ==
    \A r \in Submitted :
        /\ ExperienceOf(r).contactPreference = req[r].pref
        /\ ExperienceOf(r).userAction = "PAY_NOW"

C4_Witness ==
    \E r1, r2 \in Submitted :
        /\ ~HasShipping(r1)
        /\ ExperienceOf(r1).contactPreference = "NO_CONTACT_INFO"
        /\ HasShipping(r2)
        /\ ExperienceOf(r2).contactPreference = Undefined
        /\ req[r2].pref = Undefined

\* C5: a create-order request whose pref is not one of the three enum
\* values never reaches the processor: no createOrder call is issued for it.
C5_UnrecognizedRejected ==
    \A r \in Submitted :
        req[r].pref \notin ContactPreferenceEnum => calls[r] = 0

\* C6: when the processor call of either route returns status code s and
\* a body that parses to b, the response written has status s and a body
\* that is the JSON of b.
C6_SuccessRelayed ==
    [][\A r \in Req :
          Responds(r) /\ Succeeded(r) =>
              /\ Len(responses'[r]) = 1
              /\ responses'[r][1].status = result[r].statusCode
              /\ JSONParse(responses'[r][1].body) = JSONParse(result[r].body)
      ]_vars

C6_Witness ==
    \E r1 \in Creates, r2 \in Captures :
        /\ pc[r1] = "done" /\ pc[r2] = "done"
        /\ ResponseOf(r1).status = 201
        /\ JSONParse(ResponseOf(r1).body).value = << <<"id", "O-1">> >>
        /\ ResponseOf(r2).status = 200
        /\ JSONParse(ResponseOf(r2).body).value
              = << <<"id", "O-1">>, <<"status", "COMPLETED">> >>

\* C7: when the createOrder call or the parsing of its body raises an
\* error, whatever the error, the create-order route answers 500 with
\* exactly {"error":"Failed to create order."}.
C7_CreateFailureGeneric ==
    [][\A r \in Creates :
          Responds(r) /\ ~Succeeded(r) =>
              /\ Len(responses'[r]) = 1
              /\ responses'[r][1].status = 500
              /\ JSONParse(responses'[r][1].body)
                    = ErrorBody("Failed to create order.")
      ]_vars

C7_Witness ==
    \E r \in Creates :
        /\ pc[r] = "done"
        /\ ResponseOf(r).status = 500
        /\ JSONParse(ResponseOf(r).body) = ErrorBody("Failed to create order.")

\* C8: when the captureOrder call or the parsing of its body raises an
\* error, the capture route answers 500; the error field is the message of
\* the error when it is an ApiError and "Failed to capture order."
\* otherwise.
C8_CaptureFailureMessage ==
    [][\A r \in Captures :
          Responds(r) /\ ~Succeeded(r) =>
              /\ Len(responses'[r]) = 1
              /\ responses'[r][1].status = 500
              /\ JSONParse(responses'[r][1].body)
                    = ErrorBody(IF result[r].type = "ApiError"
                                THEN result[r].message
                                ELSE "Failed to capture order.")
      ]_vars

C8_Witness ==
    \E r1, r2 \in Captures :
        /\ pc[r1] = "done" /\ pc[r2] = "done"
        /\ ResponseOf(r1).status = 500
        /\ JSONParse(ResponseOf(r1).body) = ErrorBody("Order already captured")
        /\ ResponseOf(r2).status = 500
        /\ JSONParse(ResponseOf(r2).body)
              = ErrorBody("Failed to capture order.")

\* The processor has captured the order of r for another request and has
\* yet to answer the capture call of r.
SecondCapture(r) ==
    /\ req[r].kind = "capture"
    /\ pc[r] = "awaiting"
    /\ req[r].orderID \in captured

\* r has one response and it reports a failure.
FailureResponse(r) ==
    /\ pc[r] = "done"
    /\ Len(responses[r]) = 1
    /\ ResponseOf(r).status = 500
    /\ JSONParse(ResponseOf(r).body).ok
    /\ HasKey(JSONParse(ResponseOf(r).body).value, "error")

\* C9: a capture of an order the processor has already captured for an
\* earlier request is eventually answered, once, with a 500 response that
\* carries an error; a response once written is never changed or followed
\* by another.
C9_SecondCaptureFails ==
    /\ \A r \in Req : SecondCapture(r) ~> FailureResponse(r)
    /\ [][\A r \in Req :
             responses[r] # <<>> => responses'[r] = responses[r]]_vars

C9_Witness ==
    \E r1, r2 \in Captures :
        /\ r1 # r2
        /\ req[r1].orderID = req[r2].orderID
        /\ req[r1].orderID \in captured
        /\ pc[r1] = "done"
        /\ ResponseOf(r1).status \in {200, 201}
        /\ FailureResponse(r2)

\* One step of the server leaves every request but one as it was.
Isolated ==
    \E r \in Req :
        \A q \in Req \ {r} :
            /\ pc'[q] = pc[q]
            /\ req'[q] = req[q]
            /\ sent'[q] = sent[q]
            /\ calls'[q] = calls[q]
            /\ result'[q] = result[q]
            /\ responses'[q] = responses[q]

\* The payload handed to the processor for r is the one built from the
\* body or the path of r.
OwnPayload(r) ==
    pc[r] \in {"awaiting", "settled"} =>
        /\ req[r].kind = "create" =>
               sent[r] = Collect(req[r].cart, req[r].pref)
        /\ req[r].kind = "capture" => sent[r] = CaptureCall(req[r].orderID)

\* The response written for r is the one its route gives for the outcome
\* of the call of r.
OwnResponse(r) ==
    Responds(r) =>
        responses'[r] = << IF req[r].kind = "create"
                           THEN CreateRoute(result[r])
                           ELSE CaptureRoute(result[r]) >>

\* C10: with requests of both routes in flight in any order, every request
\* issues one processor call and no more, is answered once, and a step
\* taken for one request changes nothing of another: its payload and its
\* response come from its own input and the outcome of its own call.  A
\* request once received is not dropped, and in the end no request is
\* left unanswered.
C10_RequestsIndependent ==
    /\ [](\A r \in Req :
             /\ calls[r] = (IF pc[r] = "idle" THEN 0 ELSE 1)
             /\ Len(responses[r]) = (IF pc[r] = "done" THEN 1 ELSE 0)
             /\ OwnPayload(r))
    /\ [][/\ Isolated
          /\ \A r \in Req : OwnResponse(r)
          /\ \A r \in Req : pc[r] # "idle" => pc'[r] # "idle"]_vars
    /\ <>[](\A r \in Req : pc[r] \in {"idle", "done"})

C10_Witness ==
    \E r1 \in Creates, r2 \in Captures :
        /\ pc[r1] = "done" /\ pc[r2] = "done"
        /\ ResponseOf(r1).status = 500
        /\ ResponseOf(r2).status = 201
        /\ calls[r1] = 1 /\ calls[r2] = 1

====
